---------------------------- MODULE Spec2Model ----------------------------
(***************************************************************************)
(* A model of scrape_drama_data.py: page discovery (get_all_page_urls),    *)
(* the listing parser (get_drama_info), the URL validator (verify_url),    *)
(* the detail extractor (get_drama_metadata) and the two aggregators       *)
(* (scrape_serially, scrape_in_parallel) with the entry point that writes  *)
(* the CSV file.                                                           *)
(*                                                                         *)
(* Documents are modelled by the answers they give to the queries the code *)
(* makes (find / findAll / text / get).  An expression that may raise has  *)
(* the value Ok(v) or Raise; a bare "except:" catches Raise.  Strings are  *)
(* TLA+ strings and split, int, format and "in" are computed on them.      *)
(***************************************************************************)
EXTENDS Integers, Sequences, FiniteSets, Bags, TLC

VARIABLES
    \* ---- get_all_page_urls
    bucket_pages,    \* the document the site serves for each rating bucket
    all_page_urls,   \* the list get_all_page_urls returns
    d_pc,            \* "start" | "returned"
    \* ---- get_drama_info
    page_cells,      \* the entry containers of the listing page, in page order
    cell_idx,        \* number of containers the for loop has consumed
    drama_urls,      \* the dict built by the loop
    info_result,     \* the table get_drama_info returns
    l_pc,            \* "loop" | "returned" | "raised" (in the loop) |
                     \* "frame_raised" (in pd.DataFrame, line 144)
    \* ---- scrape_serially / scrape_in_parallel / __main__
    is_scrape_parallel, \* the mode flag of __main__
    cpu_count,       \* multiprocessing.cpu_count() of the machine
    site,            \* listing page served for each discovered URL
    args,            \* the URL list returned by get_all_page_urls
    task,            \* per input index: "todo" | "running" | "done"
    results,         \* per input index: the value get_drama_info gave
    completed,       \* input indices in the order the workers completed them
    page_i,          \* serial mode: pages concatenated so far
    drama_scrapped,  \* the running / final table
    csv_file,        \* NoFile | the table written by to_csv
    n_writes,        \* how many times to_csv ran
    m_pc             \* position of __main__

dvars == <<bucket_pages, all_page_urls, d_pc>>
lvars == <<page_cells, cell_idx, drama_urls, info_result, l_pc>>
mvars == <<is_scrape_parallel, cpu_count, site, args, task, results, completed,
           page_i, drama_scrapped, csv_file, n_writes, m_pc>>
vars == <<dvars, lvars, mvars>>

(***************************************************************************)
(* Python values and built-ins                                             *)
(***************************************************************************)
None == "<None>"            \* Python's None, where a string was expected
NaN == "nan"                \* np.nan

\* The outcome of an expression that may raise: a value, or an exception
Ok(v) == [exc |-> FALSE, val |-> v]
Raise == [exc |-> TRUE, val |-> "exception"]

\* "{}".format(x) for a string or None
Fmt(x) == IF x = None THEN "None" ELSE x

Digits == <<"0", "1", "2", "3", "4", "5", "6", "7", "8", "9">>

IsDigit(c) == \E d \in 1..10 : Digits[d] = c

DigitVal(c) == (CHOOSE d \in 1..10 : Digits[d] = c) - 1

\* str.strip() for blanks
RECURSIVE Strip(_)
Strip(s) ==
    IF Len(s) > 0 /\ SubSeq(s, 1, 1) = " " THEN Strip(SubSeq(s, 2, Len(s)))
    ELSE IF Len(s) > 0 /\ SubSeq(s, Len(s), Len(s)) = " "
         THEN Strip(SubSeq(s, 1, Len(s) - 1))
    ELSE s

RECURSIVE DigitsValue(_)
DigitsValue(s) ==
    IF Len(s) = 0 THEN 0
    ELSE 10 * DigitsValue(SubSeq(s, 1, Len(s) - 1))
         + DigitVal(SubSeq(s, Len(s), Len(s)))

AllDigits(s) == Len(s) > 0 /\ \A i \in 1..Len(s) : IsDigit(SubSeq(s, i, i))

\* int(s): blanks stripped, an optional sign, then decimal digits; anything
\* else is a ValueError
PyInt(s) ==
    LET t == Strip(s)
        signed == Len(t) > 0 /\ SubSeq(t, 1, 1) \in {"-", "+"}
        body == IF signed THEN SubSeq(t, 2, Len(t)) ELSE t
    IN  IF ~AllDigits(body) THEN Raise
        ELSE IF signed /\ SubSeq(t, 1, 1) = "-" THEN Ok(0 - DigitsValue(body))
        ELSE Ok(DigitsValue(body))

\* "{}".format(n) for a non-negative integer
RECURSIVE NatToStr(_)
NatToStr(n) ==
    IF n < 10 THEN Digits[n + 1]
    ELSE NatToStr(n \div 10) \o Digits[(n % 10) + 1]

\* p in s, for strings
StrContains(s, p) ==
    \E i \in 1..(Len(s) - Len(p) + 1) : SubSeq(s, i, i + Len(p) - 1) = p

\* s.split(sep)[-1]: what follows the last occurrence of sep, or all of s
SplitLast(s, sep) ==
    LET at == {i \in 1..(Len(s) - Len(sep) + 1) :
                  SubSeq(s, i, i + Len(sep) - 1) = sep}
    IN  IF at = {} THEN s
        ELSE LET i == CHOOSE k \in at : \A j \in at : j <= k
             IN  SubSeq(s, i + Len(sep), Len(s))

\* list(range(a, b))
PyRange(a, b) == [k \in 1..(IF b > a THEN b - a ELSE 0) |-> a + k - 1]

\* lst[k] with Python's index rules: a negative k counts from the end, and an
\* index outside the list is an IndexError
PyIndex(lst, k) ==
    LET j == IF k < 0 THEN k + Len(lst) ELSE k
    IN  IF j < 0 \/ j >= Len(lst) THEN Raise ELSE Ok(lst[j + 1])

\* The sequences over S of length at most n
SeqUpTo(S, n) == UNION {[1..k -> S] : k \in 0..n}

RECURSIVE FlatMap(_, _)
\* concatenation of F[1], ..., F[n] for a sequence of sequences
FlatMap(F, n) == IF n = 0 THEN <<>> ELSE FlatMap(F, n - 1) \o F[n]

(***************************************************************************)
(* get_all_page_urls                                                       *)
(***************************************************************************)
MAIN_URL == "https://mydramalist.com/"

page_temp == MAIN_URL \o "search?adv=titles&ty=68"

\* np.arange(5, 10.1, 0.1), in tenths: start, stop and step
ArangeStart == 50
ArangeStop == 101
ArangeStep == 1

\* np.arange yields ceil((stop - start) / step) values start + i * step
ArangeLen == (ArangeStop - ArangeStart + ArangeStep - 1) \div ArangeStep

\* np.round(..., 1) of the values: the ratings, in tenths
all_pos_ratings == [i \in 1..ArangeLen |-> ArangeStart + (i - 1) * ArangeStep]

\* "{}".format(rating) of a float with one decimal: 5.0, 5.1, ..., 10.0
RatingStr(t) == NatToStr(t \div 10) \o "." \o NatToStr(t % 10)

page_temps ==
    [i \in 1..ArangeLen |->
        page_temp \o "&rt=" \o RatingStr(all_pos_ratings[i]) \o ","
                  \o RatingStr(all_pos_ratings[i])]

\* A bucket page, by the answers to the two queries made on it:
\*   last_items: findAll('li', class 'page-item last'), each item by its
\*               find("a"): found or not, and the anchor's get("href")
\*   pagination: find("ul", class "pagination"): found or not, and the texts of
\*               its findAll("a", class "page-link")

\* lines 67-68: the 'last page' control
LastControlPages(soup) ==
    LET item == PyIndex(soup.last_items, 0)
    IN  IF item.exc THEN Raise
        ELSE IF ~item.val.found THEN Raise           \* None.get
        ELSE IF item.val.href = None THEN Raise      \* None.split
        ELSE LET n == PyInt(SplitLast(item.val.href, "page="))
             IN  IF n.exc THEN Raise ELSE Ok(PyRange(1, n.val + 1))

\* lines 72-74: the second-to-last page link
PaginationPages(soup) ==
    IF ~soup.pagination.found THEN Raise             \* None.findAll
    ELSE LET max_pages == soup.pagination.links
             link == PyIndex(max_pages, Len(max_pages) - 2)
         IN  IF link.exc THEN Raise
             ELSE LET n == PyInt(link.val)
                  IN  IF n.exc THEN Raise ELSE Ok(PyRange(1, n.val + 1))

\* lines 66-77: page_nums of one bucket page
PageNums(soup) ==
    LET a == LastControlPages(soup)
    IN  IF ~a.exc THEN a.val
        ELSE LET b == PaginationPages(soup)
             IN  IF ~b.exc THEN b.val ELSE <<1>>

\* line 79: the URLs of one bucket
BucketUrls(page_url, soup) ==
    LET page_nums == PageNums(soup)
    IN  [k \in 1..Len(page_nums) |->
            page_url \o "&page=" \o NatToStr(page_nums[k])]

\* lines 62-81: the loop over the buckets
GetAllPageUrls(pages) ==
    FlatMap([i \in 1..ArangeLen |-> BucketUrls(page_temps[i], pages[i])],
            ArangeLen)

\* ---- the bucket pages the model serves
MaxLinks == 2

Hrefs ==
    {"/search?adv=titles&ty=68&page=3", "/search?adv=titles&page=0",
     "/search?adv=titles&page=-1", "/search?adv=titles",
     "/search?page=2&rt=5.0,5.0", None}

LastItems ==
    {<<>>, <<[found |-> FALSE, href |-> None]>>}
    \cup {<<[found |-> TRUE, href |-> h]>> : h \in Hrefs}

LinkTexts == {"1", "2", "0", "Next"}

Paginations ==
    {[found |-> FALSE, links |-> <<>>]}
    \cup {[found |-> TRUE, links |-> l] : l \in SeqUpTo(LinkTexts, MaxLinks)}

BucketDocs == [last_items : LastItems, pagination : Paginations]

\* What every bucket but one serves: a single page without pagination, a
\* 'last page' control naming page 2, or a 'last page' control naming page 0
DefaultDocs ==
    {[last_items |-> <<>>, pagination |-> [found |-> FALSE, links |-> <<>>]],
     [last_items |-> <<[found |-> TRUE, href |-> "/search?adv=titles&page=2"]>>,
      pagination |-> [found |-> TRUE, links |-> <<"1", "2", "Next">>]],
     [last_items |-> <<[found |-> TRUE, href |-> "/search?adv=titles&page=0"]>>,
      pagination |-> [found |-> FALSE, links |-> <<>>]]}

DiscoverInit ==
    /\ \E dflt \in DefaultDocs, b \in 1..ArangeLen, doc \in BucketDocs :
          bucket_pages = [i \in 1..ArangeLen |-> IF i = b THEN doc ELSE dflt]
    /\ all_page_urls = <<>>
    /\ d_pc = "start"

DiscoverIdle ==
    /\ bucket_pages = <<>>
    /\ all_page_urls = <<>>
    /\ d_pc = "idle"

CallGetAllPageUrls ==
    /\ d_pc = "start"
    /\ all_page_urls' = GetAllPageUrls(bucket_pages)
    /\ d_pc' = "returned"
    /\ UNCHANGED <<bucket_pages, lvars, mvars>>

(***************************************************************************)
(* verify_url                                                              *)
(***************************************************************************)
\* response: what requests.get(url) does: Ok(status code), or Raise for a
\* transport failure (requests.exceptions.ConnectionError and the like)
VerifyUrl(response) ==
    IF response.exc THEN Raise
    ELSE IF response.val = 200 THEN Ok(TRUE)
    ELSE Ok(FALSE)

(***************************************************************************)
(* get_drama_metadata                                                      *)
(*                                                                         *)
(* A detail page, by the answers to the queries made on it:                *)
(*   rating   the text of div.col-film-rating, None when not found         *)
(*   page_det div#show-detailsxx: found or not, and for each div.hfs in it *)
(*            the text of its b, None when it has no b                     *)
(*   synopsis div.show-synopsis: found or not, and the text of its span    *)
(*   tags     li.show-tags: found or not, and the texts of its links       *)
(*   genres   li.show-genres: found or not, and the texts of its links     *)
(*   boxes    for each div.box: its li.list-item elements, each by the     *)
(*            text of its span.hft (None when absent) and its own text     *)
(***************************************************************************)
MetaFields ==
    {"rating", "watchers", "synopsis", "tags", "genres", "raters", "rank",
     "popularity"}

\* Watchers with the first statistics block read instead of the second
WatchersFirstBlock(doc) ==
    IF ~doc.page_det.found THEN NaN
    ELSE LET hfs == PyIndex(doc.page_det.hfs, 0)
         IN  IF hfs.exc THEN NaN
             ELSE IF hfs.val.b = None THEN NaN
             ELSE hfs.val.b

\* lines 163-166
Watchers(doc) ==
    IF ~doc.page_det.found THEN NaN                       \* None.findAll
    ELSE LET hfs == PyIndex(doc.page_det.hfs, 1)
         IN  IF hfs.exc THEN NaN
             ELSE IF hfs.val.b = None THEN NaN            \* None.text
             ELSE hfs.val.b

\* lines 173-177
Genres(doc) == IF ~doc.genres.found THEN <<>> ELSE doc.genres.links

\* lines 179-183: raters, rank and popularity
Stats(doc) ==
    LET stat_box == PyIndex(doc.boxes, 1)
    IN  IF stat_box.exc THEN Raise
        ELSE LET stat_list == stat_box.val
                 li0 == PyIndex(stat_list, 0)
                 li1 == PyIndex(stat_list, 1)
                 li2 == PyIndex(stat_list, 2)
             IN  IF li0.exc THEN Raise
                 ELSE IF li0.val.hft = None THEN Raise    \* None.text
                 ELSE IF li1.exc THEN Raise
                 ELSE IF li2.exc THEN Raise
                 ELSE Ok([raters |-> li0.val.hft, rank |-> li1.val.text,
                          pop |-> li2.val.text])

\* A dict value: a list, or a scalar
ListOf(items) == [kind |-> "list", items |-> items]
Scalar(v) == [kind |-> "scalar", items |-> <<v>>]

\* lines 157-190
GetDramaMetadata(doc) ==
    IF doc.rating = None THEN Raise                       \* line 161
    ELSE IF ~doc.synopsis.found THEN Raise                \* line 168
    ELSE IF doc.synopsis.span = None THEN Raise
    ELSE IF ~doc.tags.found THEN Raise                    \* line 170
    ELSE LET st == Stats(doc)
         IN  IF st.exc THEN Raise
             ELSE Ok([rating |-> ListOf(<<doc.rating>>),
                      watchers |-> ListOf(<<Watchers(doc)>>),
                      synopsis |-> ListOf(<<doc.synopsis.span>>),
                      tags |-> ListOf(<<doc.tags.links>>),
                      genres |-> ListOf(<<Genres(doc)>>),
                      raters |-> ListOf(<<st.val.raters>>),
                      rank |-> ListOf(<<st.val.rank>>),
                      popularity |-> ListOf(<<st.val.pop>>)])

(***************************************************************************)
(* get_drama_info                                                          *)
(*                                                                         *)
(* An entry container (cell), by the answers to the queries made on it:    *)
(*   span     the text of span.text-muted, None when not found             *)
(*   h6       the text of h6.title, None when not found                    *)
(*   a        whether the h6 holds a link                                  *)
(*   href     the link's href attribute, None when it has none             *)
(*   get      what requests.get does for the detail URL in verify_url      *)
(*   detail   the detail page get_drama_metadata fetches                   *)
(***************************************************************************)
\* dict.update / item assignment: the keys of e replace or extend those of d
DictUpdate(d, e) ==
    [k \in DOMAIN d \cup DOMAIN e |-> IF k \in DOMAIN e THEN e[k] ELSE d[k]]

\* line 114
EmptyDramaUrls ==
    [title |-> ListOf(<<>>), show_type |-> ListOf(<<>>), url |-> ListOf(<<>>)]

\* lines 134-138: the url entry and, for a valid URL, the metadata
UrlAndMetadata(d, url, cell) ==
    LET valid == VerifyUrl(cell.get)
    IN  IF valid.exc THEN [exc |-> TRUE, d |-> d]
        ELSE IF ~valid.val
             THEN [exc |-> FALSE,
                   d |-> DictUpdate(d, [url |-> Scalar("needs_cleaning:" \o url)])]
        ELSE LET meta == GetDramaMetadata(cell.detail)
                 d1 == DictUpdate(d, [url |-> Scalar(url)])
             IN  IF meta.exc THEN [exc |-> TRUE, d |-> d1]
                 ELSE [exc |-> FALSE, d |-> DictUpdate(d1, meta.val)]

\* lines 118-140: one iteration of the loop over the containers
ProcessCell(d, cell) ==
    IF cell.span = None
    THEN \* lines 122-125: the handler reads the title for its log line
         IF cell.h6 = None THEN [exc |-> TRUE, d |-> d]
         ELSE [exc |-> FALSE, d |-> d]
    ELSE IF ~StrContains(cell.span, "Drama") THEN [exc |-> FALSE, d |-> d]
    ELSE IF cell.h6 = None THEN [exc |-> TRUE, d |-> d]   \* None.text
    ELSE LET d1 == DictUpdate(d, [title |-> Scalar(cell.h6),
                                  show_type |-> Scalar(cell.span)])
         IN  IF ~cell.a THEN [exc |-> TRUE, d |-> d1]     \* None.get
             ELSE UrlAndMetadata(d1, MAIN_URL \o Fmt(cell.href), cell)

\* pd.DataFrame(dict): the lists must have one length, a scalar is repeated
\* for every row, and a dict of scalars only is a ValueError.  A table is its
\* set of columns and its rows; a row is a function on the columns.
DataFrame(d) ==
    LET lists == {k \in DOMAIN d : d[k].kind = "list"}
        lens == {Len(d[k].items) : k \in lists}
    IN  IF lists = {} \/ Cardinality(lens) # 1 THEN Raise
        ELSE LET n == CHOOSE l \in lens : TRUE
             IN  Ok([columns |-> DOMAIN d,
                     rows |-> [r \in 1..n |->
                                 [k \in DOMAIN d |->
                                     IF d[k].kind = "list" THEN d[k].items[r]
                                     ELSE d[k].items[1]]]])

RECURSIVE LoopCells(_, _, _)
\* lines 118-140: the loop from container i + 1 on
LoopCells(d, cells, i) ==
    IF i >= Len(cells) THEN [exc |-> FALSE, d |-> d]
    ELSE LET r == ProcessCell(d, cells[i + 1])
         IN  IF r.exc THEN r ELSE LoopCells(r.d, cells, i + 1)

\* lines 100-144: the whole call
GetDramaInfo(cells) ==
    LET r == LoopCells(EmptyDramaUrls, cells, 0)
    IN  IF r.exc THEN Raise ELSE DataFrame(r.d)

NoTable == [columns |-> {}, rows |-> <<>>]

\* one iteration of the for loop
LoopStep ==
    /\ l_pc = "loop"
    /\ cell_idx < Len(page_cells)
    /\ LET r == ProcessCell(drama_urls, page_cells[cell_idx + 1])
       IN  /\ drama_urls' = r.d
           /\ l_pc' = IF r.exc THEN "raised" ELSE "loop"
    /\ cell_idx' = cell_idx + 1
    /\ UNCHANGED <<page_cells, info_result, dvars, mvars>>

\* line 144, after the loop
ReturnTable ==
    /\ l_pc = "loop"
    /\ cell_idx = Len(page_cells)
    /\ LET t == DataFrame(drama_urls)
       IN  /\ info_result' = IF t.exc THEN NoTable ELSE t.val
           /\ l_pc' = IF t.exc THEN "frame_raised" ELSE "returned"
    /\ UNCHANGED <<page_cells, cell_idx, drama_urls, dvars, mvars>>

\* ---- the detail pages the model serves
Li(hft, text) == [hft |-> hft, text |-> text]

OtherBox == <<Li("Native Title", "Native Title: x")>>

StatLists ==
    {<<Li("9,876", "Score: 8.5 (scored by 9,876 users)"), Li(None, "Ranked: #12"),
       Li(None, "Popularity: #34")>>,
     <<Li(None, "Score: N/A"), Li(None, "Ranked: #12"), Li(None, "Popularity: #34")>>,
     <<Li("9,876", "Score: 8.5 (scored by 9,876 users)"), Li(None, "Ranked: #12")>>}

DetailDocs ==
    [rating : {None, "8.5"},
     page_det : {[found |-> FALSE, hfs |-> <<>>],
                 [found |-> TRUE, hfs |-> <<[b |-> "1"]>>],
                 [found |-> TRUE, hfs |-> <<[b |-> "1"], [b |-> None]>>],
                 [found |-> TRUE, hfs |-> <<[b |-> "1"], [b |-> "1,234"]>>]},
     synopsis : {[found |-> FALSE, span |-> None], [found |-> TRUE, span |-> None],
                 [found |-> TRUE, span |-> "A story."]},
     tags : {[found |-> FALSE, links |-> <<>>], [found |-> TRUE, links |-> <<>>],
             [found |-> TRUE, links |-> <<"Revenge">>]},
     genres : {[found |-> FALSE, links |-> <<>>], [found |-> TRUE, links |-> <<>>],
               [found |-> TRUE, links |-> <<"Thriller">>]},
     boxes : {<<OtherBox>>} \cup {<<OtherBox, sl>> : sl \in StatLists}]

\* A detail page with every queried element present
FullDoc ==
    [rating |-> "8.5",
     page_det |-> [found |-> TRUE, hfs |-> <<[b |-> "1"], [b |-> "1,234"]>>],
     synopsis |-> [found |-> TRUE, span |-> "A story."],
     tags |-> [found |-> TRUE, links |-> <<"Revenge">>],
     genres |-> [found |-> TRUE, links |-> <<"Thriller">>],
     boxes |-> <<OtherBox,
                 <<Li("9,876", "Score: 8.5 (scored by 9,876 users)"),
                   Li(None, "Ranked: #12"), Li(None, "Popularity: #34")>>>>]

NoRatingDoc == [FullDoc EXCEPT !.rating = None]

\* ---- the listing pages the model serves
MaxCells == 2

Cell(span, h6, a, href, get, detail) ==
    [span |-> span, h6 |-> h6, a |-> a, href |-> href, get |-> get,
     detail |-> detail]

\* Entries that are not dramas: a person (no category label), a container with
\* neither label nor title, a movie, a lower-case label
OtherCells ==
    {Cell(None, "Some Actor", TRUE, "/people/1", Ok(200), FullDoc),
     Cell(None, None, FALSE, None, Ok(200), FullDoc),
     Cell("Korean Movie - 2019", "Some Movie", TRUE, "/3-movie", Ok(200), FullDoc),
     Cell("Japanese drama", "Lower Case", TRUE, "/4-lower", Ok(200), FullDoc)}

\* Dramas A and B, each with every answer of the validation GET and a detail
\* page that is complete or lacks its rating
DramaCells ==
    {Cell("Korean Drama - 2020, 16 episodes", "Title " \o n, TRUE, "/1-" \o n, g, doc) :
        n \in {"A", "B"}, g \in {Ok(200), Ok(404), Raise},
        doc \in {FullDoc, NoRatingDoc}}

\* Dramas whose title markup is incomplete
BrokenDramaCells ==
    {Cell("Drama", None, FALSE, None, Ok(200), FullDoc),
     Cell("Drama", "No Link", FALSE, None, Ok(200), FullDoc),
     Cell("Drama", "No Href", TRUE, None, Ok(404), FullDoc)}

BasicCells == OtherCells \cup DramaCells \cup BrokenDramaCells

\* One drama with a valid URL, for every detail page
DetailCells ==
    {Cell("Chinese Drama - 2021, 40 episodes", "Title C", TRUE, "/2-c", Ok(200), doc) :
        doc \in DetailDocs}

\* The listing pages: the containers in page order
ListingPages ==
    SeqUpTo(BasicCells, MaxCells)
    \cup {p \o <<c>> : p \in SeqUpTo(OtherCells, MaxCells - 1), c \in DetailCells}

ListingInit ==
    /\ page_cells \in ListingPages
    /\ cell_idx = 0
    /\ drama_urls = EmptyDramaUrls
    /\ info_result = NoTable
    /\ l_pc = "loop"

(***************************************************************************)
(* scrape_serially, scrape_in_parallel and __main__                        *)
(***************************************************************************)
\* pd.concat(frames): the columns of all frames and their rows one frame after
\* the other; an empty list of frames is a ValueError.  A row keeps its own
\* columns: the columns it lacks are the ones pandas fills with NaN.
PdConcat(frames) ==
    IF Len(frames) = 0 THEN Raise
    ELSE Ok([columns |-> UNION {frames[i].columns : i \in DOMAIN frames},
             rows |-> FlatMap([i \in DOMAIN frames |-> frames[i].rows],
                              Len(frames))])

\* line 201
EmptyFrame == [columns |-> {"title", "show_type", "url"}, rows |-> <<>>]

NoFile == [exists |-> FALSE, table |-> NoTable]

\* line 216: Pool(processes = cpu_count() - 1)
Processes == cpu_count - 1

\* AllTasksDone with the results handed back once some task is done
SomeTaskDone(t) == \E i \in DOMAIN t : t[i] = "done"

\* pool.map hands back the results when every task is done
AllTasksDone(t) == \A i \in DOMAIN t : t[i] = "done"

\* MapResults with the results in the order the workers completed them
MapResultsByCompletion(res, order) == [k \in DOMAIN order |-> res[order[k]].val]

\* pool.map orders what it returns by the position in its input
MapResults(res, order) == [i \in DOMAIN res |-> res[i].val]

\* ---- the discovered lists and listing pages the model serves
MaxPages == 3
MaxCpus == 3

\* The discovered URLs: what get_all_page_urls returns when every bucket has
\* two pages.  The aggregators see the first n of them, n = 0 being the list
\* returned when no bucket yields a page.
UrlPool == GetAllPageUrls([i \in 1..ArangeLen |-> CHOOSE d \in DefaultDocs :
                              Len(PageNums(d)) = 2])

DramaOk(n) ==
    Cell("Korean Drama - 2020, 16 episodes", "Title " \o n, TRUE, "/1-" \o n,
         Ok(200), FullDoc)

\* A page with a movie only, with drama A, with drama B, and with a drama
\* whose detail page has no rating
AggPages ==
    {<<Cell("Korean Movie - 2019", "Some Movie", TRUE, "/3-movie", Ok(200), FullDoc)>>,
     <<DramaOk("A")>>, <<DramaOk("B")>>,
     <<Cell("Korean Drama - 2020, 16 episodes", "Title A", TRUE, "/1-A", Ok(200),
            NoRatingDoc)>>}

MainInit ==
    /\ is_scrape_parallel \in BOOLEAN
    /\ cpu_count \in 1..MaxCpus
    /\ site = <<>>
    /\ args = <<>>
    /\ task = <<>>
    /\ results = <<>>
    /\ completed = <<>>
    /\ page_i = 0
    /\ drama_scrapped = NoTable
    /\ csv_file = NoFile
    /\ n_writes = 0
    /\ m_pc = "start"

\* lines 200 and 215: get_all_page_urls() returns; the pages the site serves
\* for the returned URLs are fixed from here on
Discover ==
    /\ m_pc = "start"
    /\ \E n \in 0..MaxPages :
          /\ args' = [k \in 1..n |-> UrlPool[k]]
          /\ site' \in [{UrlPool[k] : k \in 1..n} -> AggPages]
    /\ m_pc' = "discovered"
    /\ UNCHANGED <<is_scrape_parallel, cpu_count, task, results, completed, page_i,
                   drama_scrapped, csv_file, n_writes, dvars, lvars>>

\* line 201
SerialBegin ==
    /\ m_pc = "discovered"
    /\ ~is_scrape_parallel
    /\ drama_scrapped' = EmptyFrame
    /\ page_i' = 0
    /\ m_pc' = "serial"
    /\ UNCHANGED <<is_scrape_parallel, cpu_count, site, args, task, results,
                   completed, csv_file, n_writes, dvars, lvars>>

\* lines 202-203: one page; an exception of get_drama_info ends the run
SerialStep ==
    /\ m_pc = "serial"
    /\ page_i < Len(args)
    /\ LET r == GetDramaInfo(site[args[page_i + 1]])
       IN  /\ drama_scrapped' =
                 IF r.exc THEN drama_scrapped
                 ELSE PdConcat(<<drama_scrapped, r.val>>).val
           /\ m_pc' = IF r.exc THEN "failed" ELSE "serial"
    /\ page_i' = page_i + 1
    /\ UNCHANGED <<is_scrape_parallel, cpu_count, site, args, task, results,
                   completed, csv_file, n_writes, dvars, lvars>>

\* line 204
SerialReturn ==
    /\ m_pc = "serial"
    /\ page_i = Len(args)
    /\ m_pc' = "scraped"
    /\ UNCHANGED <<is_scrape_parallel, cpu_count, site, args, task, results,
                   completed, page_i, drama_scrapped, csv_file, n_writes, dvars,
                   lvars>>

\* line 216: Pool() raises ValueError unless it is given at least one process
CreatePool ==
    /\ m_pc = "discovered"
    /\ is_scrape_parallel
    /\ m_pc' = IF Processes < 1 THEN "failed" ELSE "map"
    /\ task' = [i \in DOMAIN args |-> "todo"]
    /\ results' = [i \in DOMAIN args |-> Ok(NoTable)]
    /\ completed' = <<>>
    /\ UNCHANGED <<is_scrape_parallel, cpu_count, site, args, page_i,
                   drama_scrapped, csv_file, n_writes, dvars, lvars>>

\* line 217: an idle worker takes the next URL of the input
StartTask ==
    /\ m_pc = "map"
    /\ Cardinality({i \in DOMAIN task : task[i] = "running"}) < Processes
    /\ \E i \in DOMAIN task :
          /\ task[i] = "todo"
          /\ \A j \in DOMAIN task : j < i => task[j] # "todo"
          /\ task' = [task EXCEPT ![i] = "running"]
    /\ UNCHANGED <<is_scrape_parallel, cpu_count, site, args, results, completed,
                   page_i, drama_scrapped, csv_file, n_writes, m_pc, dvars, lvars>>

\* line 217: a worker finishes get_drama_info for its URL, in any order
FinishTask ==
    /\ m_pc = "map"
    /\ \E i \in DOMAIN task :
          /\ task[i] = "running"
          /\ task' = [task EXCEPT ![i] = "done"]
          /\ results' = [results EXCEPT ![i] = GetDramaInfo(site[args[i]])]
          /\ completed' = Append(completed, i)
    /\ UNCHANGED <<is_scrape_parallel, cpu_count, site, args, page_i,
                   drama_scrapped, csv_file, n_writes, m_pc, dvars, lvars>>

\* lines 217-219: pool.map returns and the results are concatenated
MapReturns ==
    /\ m_pc = "map"
    /\ AllTasksDone(task)
    /\ \A i \in DOMAIN task : ~results[i].exc
    /\ LET df == PdConcat(MapResults(results, completed))
       IN  /\ drama_scrapped' = IF df.exc THEN drama_scrapped ELSE df.val
           /\ m_pc' = IF df.exc THEN "failed" ELSE "scraped"
    /\ UNCHANGED <<is_scrape_parallel, cpu_count, site, args, task, results,
                   completed, page_i, csv_file, n_writes, dvars, lvars>>

\* line 217: pool.map re-raises the exception of a task (at once, or when the
\* other tasks are done, depending on the Python version)
MapRaises ==
    /\ m_pc = "map"
    /\ \E i \in DOMAIN task : task[i] = "done" /\ results[i].exc
    /\ m_pc' = "failed"
    /\ UNCHANGED <<is_scrape_parallel, cpu_count, site, args, task, results,
                   completed, page_i, drama_scrapped, csv_file, n_writes, dvars,
                   lvars>>

\* line 227
WriteCsv ==
    /\ m_pc = "scraped"
    /\ csv_file' = [exists |-> TRUE, table |-> drama_scrapped]
    /\ n_writes' = n_writes + 1
    /\ m_pc' = "saved"
    /\ UNCHANGED <<is_scrape_parallel, cpu_count, site, args, task, results,
                   completed, page_i, drama_scrapped, dvars, lvars>>

\* the process is interrupted before line 227 has run
Interrupt ==
    /\ m_pc \in {"start", "discovered", "serial", "map", "scraped"}
    /\ m_pc' = "killed"
    /\ UNCHANGED <<is_scrape_parallel, cpu_count, site, args, task, results,
                   completed, page_i, drama_scrapped, csv_file, n_writes, dvars,
                   lvars>>

\* The variables of the parts a specification does not exercise
ListingIdle ==
    /\ page_cells = <<>>
    /\ cell_idx = 0
    /\ drama_urls = <<>>
    /\ info_result = <<>>
    /\ l_pc = "idle"

MainIdle ==
    /\ is_scrape_parallel = FALSE
    /\ cpu_count = 0
    /\ site = <<>>
    /\ args = <<>>
    /\ task = <<>>
    /\ results = <<>>
    /\ completed = <<>>
    /\ page_i = 0
    /\ drama_scrapped = <<>>
    /\ csv_file = <<>>
    /\ n_writes = 0
    /\ m_pc = "idle"

(***************************************************************************)
(* Specifications                                                          *)
(***************************************************************************)
DiscoverNext == CallGetAllPageUrls

InitDiscover == DiscoverInit /\ ListingIdle /\ MainIdle

SpecDiscover == InitDiscover /\ [][DiscoverNext]_vars

ListingNext == LoopStep \/ ReturnTable

InitListing == DiscoverIdle /\ ListingInit /\ MainIdle

SpecListing == InitListing /\ [][ListingNext]_vars

MainNext ==
    \/ Discover
    \/ SerialBegin
    \/ SerialStep
    \/ SerialReturn
    \/ CreatePool
    \/ StartTask
    \/ FinishTask
    \/ MapReturns
    \/ MapRaises
    \/ WriteCsv
    \/ Interrupt

InitMain == DiscoverIdle /\ ListingIdle /\ MainInit

SpecMain == InitMain /\ [][MainNext]_vars

(***************************************************************************)
(* Claims about get_all_page_urls (checked under SpecDiscover)             *)
(***************************************************************************)
StartsWith(s, p) == Len(s) >= Len(p) /\ SubSeq(s, 1, Len(p)) = p

UrlsOfBucket(b) ==
    {i \in DOMAIN all_page_urls :
        StartsWith(all_page_urls[i], page_temps[b] \o "&page=")}

\* C5: get_all_page_urls returns at least one listing-page URL for each of the
\* 51 rating buckets 5.0 .. 10.0, whatever the bucket page contains.
C5_AtLeastOneUrlPerBucket ==
    d_pc = "returned" =>
        /\ ArangeLen = 51
        /\ \A b \in 1..ArangeLen : UrlsOfBucket(b) # {}

\* The last page index as C8 states it: (a) the page number in the target of
\* the 'last page' control, else (b) the label of the second-to-last page
\* link as an integer, else (c) 1
ClaimedLastPage(soup) ==
    LET a == LastControlPages(soup)
        links == soup.pagination.links
        b == IF soup.pagination.found /\ Len(links) >= 2
             THEN PyInt(links[Len(links) - 1])
             ELSE Raise
    IN  IF ~a.exc THEN Len(a.val)
        ELSE IF ~b.exc THEN (IF b.val > 0 THEN b.val ELSE 0)
        ELSE 1

ClaimedUrls ==
    FlatMap([i \in 1..ArangeLen |->
                [k \in 1..ClaimedLastPage(bucket_pages[i]) |->
                    page_temps[i] \o "&page=" \o NatToStr(k)]],
            ArangeLen)

\* C8: per bucket the last page index is the first of (a), (b), (c) that
\* succeeds, the URLs emitted are base&page=1 .. base&page=last in increasing
\* order, buckets in sweep order, and no URL is emitted twice.
C8_ThreeTierLastPage ==
    d_pc = "returned" =>
        /\ all_page_urls = ClaimedUrls
        /\ \A i, j \in DOMAIN all_page_urls :
              all_page_urls[i] = all_page_urls[j] => i = j

(***************************************************************************)
(* Claims about get_drama_info, verify_url and get_drama_metadata          *)
(* (checked under SpecListing)                                             *)
(***************************************************************************)
Qualifying(cell) == cell.span # None /\ StrContains(cell.span, "Drama")

QualifyingCells == SelectSeq(page_cells, Qualifying)

IsSentinel(url) == StartsWith(url, "needs_cleaning:")

\* C1: the returned table has exactly one row per qualifying entry, in page
\* order: k qualifying entries give k rows.
C1_OneRowPerQualifyingEntry ==
    l_pc = "returned" =>
        /\ Len(info_result.rows) = Len(QualifyingCells)
        /\ \A k \in DOMAIN info_result.rows :
              /\ info_result.rows[k].title = QualifyingCells[k].h6
              /\ info_result.rows[k].show_type = QualifyingCells[k].span

\* An entry with complete title markup whose validation GET answers, but not
\* with 200
FailsValidation(cell) ==
    /\ Qualifying(cell)
    /\ cell.h6 # None
    /\ cell.a
    /\ ~cell.get.exc
    /\ cell.get.val # 200

\* C2: the row of an entry whose URL fails validation has the URL
\* "needs_cleaning:" + url and none of the eight metadata fields, whatever
\* preceded it; a page whose only qualifying entry fails validation gives a
\* table of exactly that one row.
C2_SentinelRowHasNoMetadata ==
    /\ l_pc = "returned" =>
          \A k \in DOMAIN info_result.rows :
             IsSentinel(info_result.rows[k].url) =>
                DOMAIN info_result.rows[k] \cap MetaFields = {}
    /\ (/\ l_pc \in {"returned", "frame_raised"}
        /\ Len(QualifyingCells) = 1
        /\ FailsValidation(QualifyingCells[1]))
       => /\ l_pc = "returned"
          /\ Len(info_result.rows) = 1
          /\ info_result.rows[1].url =
                "needs_cleaning:" \o MAIN_URL \o Fmt(QualifyingCells[1].href)

\* C3: an entry that does not qualify emits no row, leaves what the loop has
\* accumulated unchanged and does not abort the page; a page without
\* qualifying entries returns an empty table.
C3_NonQualifyingEntrySkipped ==
    /\ [][(/\ l_pc = "loop"
           /\ cell_idx < Len(page_cells)
           /\ ~Qualifying(page_cells[cell_idx + 1]))
          => (drama_urls' = drama_urls /\ l_pc' = "loop")]_vars
    /\ [](Len(QualifyingCells) = 0 =>
             /\ l_pc \notin {"raised", "frame_raised"}
             /\ l_pc = "returned" => info_result.rows = <<>>)

\* The entry the loop has just processed reached verify_url
ReachedVerify ==
    /\ cell_idx >= 1
    /\ Qualifying(page_cells[cell_idx])
    /\ page_cells[cell_idx].h6 # None
    /\ page_cells[cell_idx].a

\* C4: verify_url gives true exactly for status 200 and false for any other
\* status and for a transport failure, which never propagates: the row gets
\* the sentinel and the loop goes on.
C4_VerifyUrlFailsClosed ==
    (l_pc \in {"loop", "raised"} /\ ReachedVerify) =>
        LET cell == page_cells[cell_idx]
            url == MAIN_URL \o Fmt(cell.href)
        IN  IF ~cell.get.exc /\ cell.get.val = 200
            THEN drama_urls.url = Scalar(url)
            ELSE /\ l_pc = "loop"
                 /\ drama_urls.url = Scalar("needs_cleaning:" \o url)

\* The markup get_drama_metadata reads, as present or absent on a detail page
RatingPresent(doc) == doc.rating # None

SynopsisPresent(doc) == doc.synopsis.found /\ doc.synopsis.span # None

TagsPresent(doc) == doc.tags.found

StatsPresent(doc) ==
    /\ Len(doc.boxes) >= 2
    /\ Len(doc.boxes[2]) >= 3
    /\ doc.boxes[2][1].hft # None

WatchersPresent(doc) ==
    /\ doc.page_det.found
    /\ Len(doc.page_det.hfs) >= 2
    /\ doc.page_det.hfs[2].b # None

\* The dict holds the entry's three fields and the eight fields of its detail
\* page, with the defaults for watchers and genres
HoldsRecordOf(d, doc) ==
    /\ DOMAIN d = {"title", "show_type", "url"} \cup MetaFields
    /\ d.rating = ListOf(<<doc.rating>>)
    /\ d.watchers =
          ListOf(<<IF WatchersPresent(doc) THEN doc.page_det.hfs[2].b ELSE NaN>>)
    /\ d.synopsis = ListOf(<<doc.synopsis.span>>)
    /\ d.tags = ListOf(<<doc.tags.links>>)
    /\ d.genres = ListOf(<<IF doc.genres.found THEN doc.genres.links ELSE <<>>>>)
    /\ d.raters = ListOf(<<doc.boxes[2][1].hft>>)
    /\ d.rank = ListOf(<<doc.boxes[2][2].text>>)
    /\ d.popularity = ListOf(<<doc.boxes[2][3].text>>)

\* The loop has just processed an entry whose URL verify_url found valid
ProcessedValid ==
    /\ l_pc \in {"loop", "raised"}
    /\ ReachedVerify
    /\ ~page_cells[cell_idx].get.exc
    /\ page_cells[cell_idx].get.val = 200

\* All eight metadata keys, or none
NoPartialRecord(d) ==
    MetaFields \subseteq DOMAIN d \/ MetaFields \cap DOMAIN d = {}

\* C9 as stated: for a valid URL either the record of exactly eight fields is
\* returned (watchers NaN and genres empty when their markup is absent) and
\* the row has these plus title, show_type and url, or markup of a required
\* field (rating, synopsis, raters, rank, popularity) is absent and the
\* extraction fails without a partial record.
C9_AsStated ==
    ProcessedValid =>
        LET doc == page_cells[cell_idx].detail
        IN  \/ l_pc = "loop" /\ HoldsRecordOf(drama_urls, doc)
            \/ /\ l_pc = "raised"
               /\ ~(RatingPresent(doc) /\ SynopsisPresent(doc) /\ StatsPresent(doc))
               /\ NoPartialRecord(drama_urls)

\* C9 (amended): as stated, with the tags container among the required
\* markup: the extraction fails exactly when the rating, the synopsis, the
\* tags container or the raters/rank/popularity markup is absent, and
\* otherwise the record of exactly eight fields is returned; a returned row
\* with a valid URL has exactly the eleven fields.
C9_AllOrNothing ==
    /\ ProcessedValid =>
          LET doc == page_cells[cell_idx].detail
          IN  IF /\ RatingPresent(doc)
                 /\ SynopsisPresent(doc)
                 /\ TagsPresent(doc)
                 /\ StatsPresent(doc)
              THEN l_pc = "loop" /\ HoldsRecordOf(drama_urls, doc)
              ELSE l_pc = "raised" /\ NoPartialRecord(drama_urls)
    /\ l_pc = "returned" =>
          \A k \in DOMAIN info_result.rows :
             ~IsSentinel(info_result.rows[k].url) =>
                DOMAIN info_result.rows[k] =
                   {"title", "show_type", "url"} \cup MetaFields

\* A valid entry whose detail page lacks the watchers markup and the genres
\* container has been extracted with the two defaults
C9_Witness ==
    /\ ProcessedValid
    /\ l_pc = "loop"
    /\ ~WatchersPresent(page_cells[cell_idx].detail)
    /\ ~page_cells[cell_idx].detail.genres.found
    /\ drama_urls.watchers = ListOf(<<NaN>>)
    /\ drama_urls.genres = ListOf(<<<<>>>>)

(***************************************************************************)
(* Claims about the aggregators and __main__ (checked under SpecMain)      *)
(***************************************************************************)
\* What get_drama_info gives for each discovered URL
PageTables == [i \in DOMAIN args |-> GetDramaInfo(site[args[i]])]

SomePageFails == \E i \in DOMAIN args : PageTables[i].exc

\* The rows of the first n pages, page after page in the order of args
BlocksInInputOrder(n) == FlatMap([i \in 1..n |-> PageTables[i].val.rows], n)

SeqToBag(q) ==
    [x \in {q[i] : i \in DOMAIN q} |-> Cardinality({i \in DOMAIN q : q[i] = x})]

\* C6: over the same URLs and page contents the parallel run ends as the
\* serial run does, with a table of the same multiset of rows (duplicates
\* kept), for every pool size and interleaving.  The serial run fails when
\* some page fails and otherwise returns the blocks in input order (C10).
C6_ParallelEqualsSerial ==
    (is_scrape_parallel /\ m_pc \in {"scraped", "saved", "failed"}) =>
        IF SomePageFails THEN m_pc = "failed"
        ELSE /\ m_pc # "failed"
             /\ SeqToBag(drama_scrapped.rows)
                   = SeqToBag(BlocksInInputOrder(Len(args)))

\* C7: the file is written at most once and only when every page (serial) or
\* every task (parallel) has finished; a run in which a page fails, or which
\* is interrupted before the write, persists nothing.
C7_FileOnlyAfterAllPages ==
    /\ n_writes <= 1
    /\ csv_file.exists =>
          /\ m_pc = "saved"
          /\ n_writes = 1
          /\ IF is_scrape_parallel
             THEN \A i \in DOMAIN args : task[i] = "done"
             ELSE page_i = Len(args)
          /\ ~SomePageFails
          /\ csv_file.table = drama_scrapped
    /\ m_pc \in {"failed", "killed"} => ~csv_file.exists
    /\ SomePageFails => ~csv_file.exists

\* A parallel run over several pages has written its file
C7_Witness ==
    /\ csv_file.exists
    /\ is_scrape_parallel
    /\ Len(args) >= 2
    /\ Len(csv_file.table.rows) >= 2

\* C10: the final table of the parallel run has its page blocks in the order
\* of the discovered URLs whatever the order of completion, which is the order
\* in which the serial run concatenates them.
C10_BlocksInInputOrder ==
    /\ (is_scrape_parallel /\ m_pc \in {"scraped", "saved"}) =>
          drama_scrapped.rows = BlocksInInputOrder(Len(args))
    /\ (~is_scrape_parallel /\ m_pc \in {"serial", "scraped", "saved"}) =>
          drama_scrapped.rows = BlocksInInputOrder(page_i)

\* A parallel run whose workers completed out of input order has returned a
\* table of two different rows
C10_Witness ==
    /\ is_scrape_parallel
    /\ m_pc = "scraped"
    /\ Len(completed) >= 2
    /\ completed[1] # 1
    /\ Len(drama_scrapped.rows) >= 2
    /\ drama_scrapped.rows[1] # drama_scrapped.rows[2]

=============================================================================
